---- MODULE Spec2Model ----
(***************************************************************************)
(* Scoring engine of qsos-lng: the band mapper (computeScore), the         *)
(* scorecard aggregator (computeScoreCardScore) and the metric             *)
(* preprocessing of ComputeScores, as written in score.go.                 *)
(***************************************************************************)
EXTENDS Integers, Sequences, FiniteSets, TLC

VARIABLES
    pc,          \* position of the call: "idle" before, "done" after
    nb,          \* computeScore: the value
    thresholds,  \* computeScore: the four breakpoints
    direction,   \* computeScore: the direction
    score,       \* computeScore: the value returned
    checks,      \* stats.ScoreCard.Checks, a list of [Name, Score]
    weights,     \* weights.ScoreCard, a map from names to weights
    order,       \* the order in which range visits the keys of weights.ScoreCard
    card,        \* computeScoreCardScore: how the call ended
    stats,       \* ComputeScores: the ProjectStats
    config,      \* ComputeScores: the Thresholds
    clock,       \* the readings of the clock by the two calls of time.Since
    scores,      \* ComputeScores: how the call ended
    proc,        \* the process: "running", or "exited" by os.Exit or a panic
    inv,         \* the scoring invocations that run in the process
    sonar,       \* Executor.GetSonarStats: its position, counters and result
    github       \* Executor.GetGitHubStats: its position, map and result

vars == <<pc, nb, thresholds, direction, score, checks, weights, order, card,
          stats, config, clock, scores, proc, inv, sonar, github>>

(* ------------------------------ bounds -------------------------------- *)

\* breakpoints are drawn from 0..MaxValue, values from -1..MaxValue+1
MaxValue == 4

Values == (0 - 1)..(MaxValue + 1)

ThresholdValues == 0..MaxValue

\* at most MaxChecks entries in stats.ScoreCard.Checks
MaxChecks == 2

\* check scores are drawn from -1..MaxScore
MaxScore == 2

\* weights are drawn from 1..MaxWeight
MaxWeight == 2

Names == {"Binary-Artifacts", "CI-Tests", "Code-Review"}

\* the counts and dates of the stats are drawn from 0..MaxCount
MaxCount == 1

(* --------------------------- band mapper ------------------------------ *)

\* type Direction bool
BiggerIsBetter == TRUE

SmallerIsBetter == FALSE

\* scale := [5]int64{1, 2, 3, 4, 5}; reversed when direction == SmallerIsBetter
scaleOf(dir) ==
    IF dir = SmallerIsBetter THEN <<5, 4, 3, 2, 1>> ELSE <<1, 2, 3, 4, 5>>

\* faulty variant: >= in place of > (equality crosses the breakpoint)
computeScoreGe(n, t, dir) ==
    LET scale == scaleOf(dir) IN
    IF n >= t[4] THEN scale[5]
    ELSE IF n >= t[3] THEN scale[4]
    ELSE IF n >= t[2] THEN scale[3]
    ELSE IF n >= t[1] THEN scale[2]
    ELSE scale[1]

\* faulty variant: a zero-based scale, 0..4 and 4..0
computeScoreZeroBased(n, t, dir) ==
    LET scale == IF dir = SmallerIsBetter THEN <<4, 3, 2, 1, 0>> ELSE <<0, 1, 2, 3, 4>> IN
    IF n > t[4] THEN scale[5]
    ELSE IF n > t[3] THEN scale[4]
    ELSE IF n > t[2] THEN scale[3]
    ELSE IF n > t[1] THEN scale[2]
    ELSE scale[1]

\* faulty variant: the direction test inverted (the scale is reversed for BiggerIsBetter)
computeScoreFlipped(n, t, dir) ==
    LET scale == scaleOf(~dir) IN
    IF n > t[4] THEN scale[5]
    ELSE IF n > t[3] THEN scale[4]
    ELSE IF n > t[2] THEN scale[3]
    ELSE IF n > t[1] THEN scale[2]
    ELSE scale[1]

\* faulty variant: the switch cases in ascending order (thresholds[0] tested first)
computeScoreAscending(n, t, dir) ==
    LET scale == scaleOf(dir) IN
    IF n > t[1] THEN scale[2]
    ELSE IF n > t[2] THEN scale[3]
    ELSE IF n > t[3] THEN scale[4]
    ELSE IF n > t[4] THEN scale[5]
    ELSE scale[1]

\* computeScore(nb, thresholds, direction): t[1..4] are thresholds[0..3],
\* scale[1..5] are scale[0..4]; the switch takes the first case that holds.
computeScore(n, t, dir) ==
    LET scale == scaleOf(dir) IN
    IF n > t[4] THEN scale[5]
    ELSE IF n > t[3] THEN scale[4]
    ELSE IF n > t[2] THEN scale[3]
    ELSE IF n > t[1] THEN scale[2]
    ELSE scale[1]

(* ------------------------ scorecard aggregator ------------------------ *)

\* check.Score == -1 means that the check does not apply
NotApplicable == -1

\* how a call ends: a returned value, log.Fatalf on a missing check, or the
\* run-time panic of an integer division by zero
NoOutcome == [kind |-> "none", name |-> "", value |-> 0]

Returned(v) == [kind |-> "score", name |-> "", value |-> v]

Fatal(name) == [kind |-> "MissingCheck", name |-> name, value |-> 0]

DivideByZero == [kind |-> "DivideByZero", name |-> "", value |-> 0]

Abs(a) == IF a < 0 THEN 0 - a ELSE a

\* Go's integer quotient a / b for b # 0: truncated towards zero
Quo(a, b) ==
    IF (a >= 0) = (b > 0) THEN Abs(a) \div Abs(b) ELSE 0 - (Abs(a) \div Abs(b))

\* faulty variant: a check scoring -1 leaves the sum alone but still adds its weight
accumulateWeightOfNA(acc, check, name, weight) ==
    IF check.Name # name THEN acc
    ELSE IF check.Score = NotApplicable
         THEN [found |-> TRUE, sum |-> acc.sum, divisor |-> acc.divisor + weight]
         ELSE [found |-> TRUE,
               sum |-> acc.sum + check.Score * weight,
               divisor |-> acc.divisor + weight]

\* faulty variant: the name test is dropped, every check counts for every name
accumulateAnyName(acc, check, name, weight) ==
    IF check.Score = NotApplicable THEN [acc EXCEPT !.found = TRUE]
    ELSE [found |-> TRUE,
          sum |-> acc.sum + check.Score * weight,
          divisor |-> acc.divisor + weight]

\* faulty variant: the sum is overwritten, sum = score * weight, not added to
accumulateOverwrite(acc, check, name, weight) ==
    IF check.Name # name THEN acc
    ELSE IF check.Score = NotApplicable THEN [acc EXCEPT !.found = TRUE]
    ELSE [found |-> TRUE,
          sum |-> check.Score * weight,
          divisor |-> acc.divisor + weight]

\* the body of the inner loop, for one check: skip another name, mark the name
\* found, skip a score of -1, else add to sum and divisor
accumulate(acc, check, name, weight) ==
    IF check.Name # name THEN acc
    ELSE IF check.Score = NotApplicable THEN [acc EXCEPT !.found = TRUE]
    ELSE [found |-> TRUE,
          sum |-> acc.sum + check.Score * weight,
          divisor |-> acc.divisor + weight]

\* for _, check := range stats.ScoreCard.Checks { ... }, from index j on
RECURSIVE checksLoop(_, _, _, _, _)
checksLoop(cs, j, name, weight, acc) ==
    IF j > Len(cs) THEN acc
    ELSE checksLoop(cs, j + 1, name, weight, accumulate(acc, cs[j], name, weight))

\* faulty variant: a name without a check is skipped instead of being fatal
nameStepNoFatal(acc, cs, name, weight) ==
    LET r == checksLoop(cs, 1, name, weight,
                        [found |-> FALSE, sum |-> acc.sum, divisor |-> acc.divisor])
    IN [fatal |-> "", sum |-> r.sum, divisor |-> r.divisor]

\* the body of the outer loop, for one name of weights.ScoreCard: found starts
\* false, the checks are scanned, and log.Fatalf ends the process if no check
\* carries the name
nameStep(acc, cs, name, weight) ==
    LET r == checksLoop(cs, 1, name, weight,
                        [found |-> FALSE, sum |-> acc.sum, divisor |-> acc.divisor])
    IN IF ~r.found
       THEN [fatal |-> name, sum |-> acc.sum, divisor |-> acc.divisor]
       ELSE [fatal |-> "", sum |-> r.sum, divisor |-> r.divisor]

\* faulty variant: a zero divisor is answered with a score of 0
returnValueGuarded(sum, divisor) ==
    IF divisor = 0 THEN Returned(0)
    ELSE Returned(Quo(Quo(sum + 1, divisor), 2))

\* faulty variant: the average is rounded after the first division, (sum/divisor + 1) / 2
returnValueRoundLate(sum, divisor) ==
    IF divisor = 0 THEN DivideByZero
    ELSE Returned(Quo(Quo(sum, divisor) + 1, 2))

\* return (sum + 1) / divisor / 2: integer division by zero panics
returnValue(sum, divisor) ==
    IF divisor = 0 THEN DivideByZero
    ELSE Returned(Quo(Quo(sum + 1, divisor), 2))

\* for name, weight := range weights.ScoreCard { ... } visiting the names in the
\* order ord from index k on, then the return statement
RECURSIVE namesLoop(_, _, _, _, _)
namesLoop(cs, ws, ord, k, acc) ==
    IF acc.fatal # "" THEN Fatal(acc.fatal)
    ELSE IF k > Len(ord) THEN returnValue(acc.sum, acc.divisor)
    ELSE namesLoop(cs, ws, ord, k + 1, nameStep(acc, cs, ord[k], ws[ord[k]]))

\* computeScoreCardScore(stats, weights), the keys of the map visited in order ord
computeScoreCardScore(cs, ws, ord) ==
    namesLoop(cs, ws, ord, 1, [fatal |-> "", sum |-> 0, divisor |-> 0])

\* the orders in which range may visit the keys S of a map
Orders(S) ==
    {o \in [1..Cardinality(S) -> S] : \A i, j \in 1..Cardinality(S) : i # j => o[i] # o[j]}

(* --------------------------- ComputeScores ---------------------------- *)

\* ProjectStats: dates and clock readings in one unit of time, Go's
\* nanoseconds; DuplicationDensity, a float64 percentage, in tenths of a percent
MakeStats(first, last, stars, contributors, loc, functions, smells, overload, cyclomatic, cognitive, density) ==
    [GitHub |-> [FirstCommitDate |-> first, LastCommitDate |-> last,
                 Stars |-> stars, ActiveContributors |-> contributors],
     Sonar |-> [LinesOfCode |-> loc, Functions |-> functions, CodeSmells |-> smells,
                BrainOverload |-> overload, CyclomaticComplexity |-> cyclomatic,
                CognitiveComplexity |-> cognitive, DuplicationDensity |-> density]]

NoStats == MakeStats(0, 0, 0, 0, 0, 0, 0, 0, 0, 0, 0)

\* Thresholds: four breakpoints for each metric
MakeThresholds(maturity, activity, popularity, contributors, size, cyclomatic, cognitive, duplication, smells) ==
    [Community |-> [Maturity |-> maturity, Activity |-> activity,
                    Popularity |-> popularity, Contributors |-> contributors],
     Tech |-> [Size |-> size, CyclomaticComplexity |-> cyclomatic,
               CognitiveComplexity |-> cognitive, Duplication |-> duplication,
               CodeSmells |-> smells]]

NoThresholds ==
    LET z == <<0, 0, 0, 0>> IN MakeThresholds(z, z, z, z, z, z, z, z, z)

\* ProjectScores
MakeScores(p) ==
    [Community |-> [Maturity |-> p[1], Activity |-> p[2], Popularity |-> p[3],
                    Contributors |-> p[4]],
     Tech |-> [Size |-> p[5], CyclomaticComplexity |-> p[6],
               CognitiveComplexity |-> p[7], Duplication |-> p[8], CodeSmells |-> p[9]],
     Security |-> [ScoreCard |-> p[10]]]

NoProjectScores ==
    [kind |-> "none", name |-> "", value |-> MakeScores(<<0, 0, 0, 0, 0, 0, 0, 0, 0, 0>>)]

\* int64(f) of a float64 held in tenths: truncation towards zero
TruncTenths(d) == Quo(d, 10)

\* time.Since(stats.GitHub.FirstCommitDate).Nanoseconds() with the clock at now
computeMaturityScore(st, th, now) ==
    Returned(computeScore(now - st.GitHub.FirstCommitDate, th.Community.Maturity,
                          BiggerIsBetter))

computeActivityScore(st, th, now) ==
    Returned(computeScore(now - st.GitHub.LastCommitDate, th.Community.Activity,
                          SmallerIsBetter))

computePopularityScore(st, th) ==
    Returned(computeScore(st.GitHub.Stars, th.Community.Popularity, BiggerIsBetter))

computeContributorsScore(st, th) ==
    Returned(computeScore(st.GitHub.ActiveContributors, th.Community.Contributors,
                          BiggerIsBetter))

computeSizeScore(st, th) ==
    Returned(computeScore(st.Sonar.LinesOfCode, th.Tech.Size, SmallerIsBetter))

\* faulty variant: the mean cyclomatic complexity of a function, as in the
\* earlier revision of score.go
computeCyclomaticComplexityScoreMean(st, th) ==
    IF st.Sonar.Functions = 0 THEN DivideByZero
    ELSE Returned(computeScore(Quo(st.Sonar.CyclomaticComplexity, st.Sonar.Functions),
                               th.Tech.CyclomaticComplexity, SmallerIsBetter))

\* pct := int64(100.0 * BrainOverload / Functions): an int64 division, which
\* panics when Functions is 0
computeCyclomaticComplexityScore(st, th) ==
    IF st.Sonar.Functions = 0 THEN DivideByZero
    ELSE Returned(computeScore(Quo(100 * st.Sonar.BrainOverload, st.Sonar.Functions),
                               th.Tech.CyclomaticComplexity, SmallerIsBetter))

\* nb := int64(CognitiveComplexity / Functions)
computeCognitiveComplexityScore(st, th) ==
    IF st.Sonar.Functions = 0 THEN DivideByZero
    ELSE Returned(computeScore(Quo(st.Sonar.CognitiveComplexity, st.Sonar.Functions),
                               th.Tech.CognitiveComplexity, SmallerIsBetter))

\* nb := int64(DuplicationDensity)
computeDuplicationScore(st, th) ==
    Returned(computeScore(TruncTenths(st.Sonar.DuplicationDensity), th.Tech.Duplication,
                          SmallerIsBetter))

\* faulty variant: fewer lines between two code smells score better, as in
\* the earlier revision in executor.go
computeCodeSmellsScoreSmaller(st, th) ==
    IF st.Sonar.CodeSmells = 0 THEN DivideByZero
    ELSE Returned(computeScore(Quo(st.Sonar.LinesOfCode, st.Sonar.CodeSmells),
                               th.Tech.CodeSmells, SmallerIsBetter))

\* nb := int64(LinesOfCode / CodeSmells): panics when CodeSmells is 0
computeCodeSmellsScore(st, th) ==
    IF st.Sonar.CodeSmells = 0 THEN DivideByZero
    ELSE Returned(computeScore(Quo(st.Sonar.LinesOfCode, st.Sonar.CodeSmells),
                               th.Tech.CodeSmells, BiggerIsBetter))

\* the ten field values of the composite literal, in the order in which they
\* are evaluated
fieldValues(st, th, cs, ws, now1, now2, ord) ==
    <<computeMaturityScore(st, th, now1),
      computeActivityScore(st, th, now2),
      computePopularityScore(st, th),
      computeContributorsScore(st, th),
      computeSizeScore(st, th),
      computeCyclomaticComplexityScore(st, th),
      computeCognitiveComplexityScore(st, th),
      computeDuplicationScore(st, th),
      computeCodeSmellsScore(st, th),
      computeScoreCardScore(cs, ws, ord)>>

\* the first field whose evaluation does not return, 0 if all return
firstFailure(parts) ==
    LET failed == {i \in 1..Len(parts) : parts[i].kind # "score"}
    IN IF failed = {} THEN 0 ELSE CHOOSE i \in failed : \A j \in failed : i <= j

\* ComputeScores(stats, thresholds, weights): the panic or the fatal exit of
\* the first failing field ends the call, else the ProjectScores is returned
ComputeScores(st, th, cs, ws, now1, now2, ord) ==
    LET parts == fieldValues(st, th, cs, ws, now1, now2, ord)
        f == firstFailure(parts)
    IN IF f = 0
       THEN [kind |-> "scores", name |-> "",
             value |-> MakeScores([i \in 1..10 |-> parts[i].value])]
       ELSE [kind |-> parts[f].kind, name |-> parts[f].name,
             value |-> NoProjectScores.value]

(* ------------------------------ executor ------------------------------ *)

\* for i := 0; i < 100; i++: the number of polls of the loop
MaxPolls == 100

\* strconv.ParseBool: the values it accepts as true and as false
TrueValues == {"1", "t", "T", "TRUE", "true", "True"}

FalseValues == {"0", "f", "F", "FALSE", "false", "False"}

\* strconv.ParseBool(skip): the boolean, or an error
ParseBool(str) ==
    IF str \in TrueValues THEN [err |-> FALSE, value |-> TRUE]
    ELSE IF str \in FalseValues THEN [err |-> FALSE, value |-> FALSE]
    ELSE [err |-> TRUE, value |-> FALSE]

\* skipped after the first statements of GetSonarStats, for a value of
\* SKIP_SONAR_SCANNER that is empty or that ParseBool accepts
skippedOf(env) == IF env = "" THEN FALSE ELSE ParseBool(env).value

\* faulty variant: the scanner is run whatever SKIP_SONAR_SCANNER says
runsScannerAlways(skipped) == TRUE

\* if !skipped { e.runSonarScannerCLI(owner, repo) }
runsScanner(skipped) == ~skipped

\* faulty variant: the loop makes one poll more, i <= 100
loopTestInclusive(i) == i <= MaxPolls

\* the test of the polling loop, i < 100
loopTest(i) == i < MaxPolls

\* the results of getSonarStats and of GetSonarStats
NoSonarResult == [kind |-> "none", loc |-> 0, overload |-> 0]

SonarError == [kind |-> "error", loc |-> 0, overload |-> 0]

SonarStats(loc, overload) == [kind |-> "stats", loc |-> loc, overload |-> overload]

\* getSonarStats for the answers resp of SonarQube: the measures request, and
\* the issues request that is made only when LinesOfCode is not 0
getSonarStats(resp) ==
    IF resp.measuresErr THEN SonarError
    ELSE IF resp.loc = 0 THEN SonarStats(0, 0)
    ELSE IF resp.issuesErr THEN SonarError
    ELSE SonarStats(resp.loc, resp.nb)

\* stats.LinesOfCode > 0 && stats.BrainOverload > 0
ready(st) == st.loc > 0 /\ st.overload > 0

\* GetSonarStats before it is called
NoSonar ==
    [pc |-> "idle", env |-> "", cloned |-> FALSE, container |-> FALSE,
     scanner |-> "notrun", i |-> 0, calls |-> 0, notReady |-> 0,
     scannerAtFirstCall |-> "notrun", last |-> NoSonarResult, result |-> NoSonarResult]

\* if nbCommits > 3: the number of commits an active contributor exceeds
ActiveThreshold == 3

\* strings.HasSuffix(s, suffix)
HasSuffix(str, suffix) ==
    /\ Len(str) >= Len(suffix)
    /\ SubSeq(str, Len(str) - Len(suffix) + 1, Len(str)) = suffix

\* the body of the loop over the commits of a page: a commit whose author
\* name ends in "[bot]" is skipped, else uniqueContributors[email] += 1
addCommit(unique, commit) ==
    IF HasSuffix(commit.Name, "[bot]") THEN unique
    ELSE IF commit.Email \in DOMAIN unique
    THEN [unique EXCEPT ![commit.Email] = @ + 1]
    ELSE [e \in DOMAIN unique \cup {commit.Email} |->
             IF e = commit.Email THEN 1 ELSE unique[e]]

\* for _, commit := range commits { ... } over the commits cs from index j on
RECURSIVE addCommits(_, _, _)
addCommits(unique, cs, j) ==
    IF j > Len(cs) THEN unique
    ELSE addCommits(addCommit(unique, cs[j]), cs, j + 1)

\* the last loop of GetGitHubStats: one more active contributor for every
\* entry of the map with nbCommits > 3
countActive(unique) == Cardinality({e \in DOMAIN unique : unique[e] > ActiveThreshold})

\* the results of GetGitHubStats
NoGitHubResult == [kind |-> "none", active |-> 0]

GitHubError == [kind |-> "error", active |-> 0]

GitHubStats(active) == [kind |-> "stats", active |-> active]

\* GetGitHubStats before it is called
NoGitHub ==
    [pc |-> "idle", commits |-> <<>>, fetched |-> 0, unique |-> <<>>,
     result |-> NoGitHubResult]

(* ------------------- specification: band mapper ---------------------- *)

InitBand ==
    /\ pc = "idle"
    /\ nb \in Values
    /\ thresholds \in [1..4 -> ThresholdValues]
    /\ direction \in {BiggerIsBetter, SmallerIsBetter}
    /\ score = 0
    /\ checks = <<>>
    /\ weights = <<>>
    /\ order = <<>>
    /\ card = NoOutcome
    /\ stats = NoStats
    /\ config = NoThresholds
    /\ clock = <<>>
    /\ scores = NoProjectScores
    /\ proc = "running"
    /\ inv = <<>>
    /\ sonar = NoSonar
    /\ github = NoGitHub

\* one call of computeScore on the chosen arguments
CallComputeScore ==
    /\ pc = "idle"
    /\ score' = computeScore(nb, thresholds, direction)
    /\ pc' = "done"
    /\ UNCHANGED <<nb, thresholds, direction, checks, weights, order, card,
                   stats, config, clock, scores>>
    /\ UNCHANGED <<proc, inv, sonar, github>>

NextBand == CallComputeScore

SpecBand == InitBand /\ [][NextBand]_vars

(* ------------------ specification: scorecard aggregator --------------- *)

Check == [Name : Names, Score : NotApplicable..MaxScore]

CheckLists == UNION {[1..n -> Check] : n \in 0..MaxChecks}

WeightMaps == UNION {[S -> 1..MaxWeight] : S \in SUBSET Names}

InitCard ==
    /\ pc = "idle"
    /\ nb = 0
    /\ thresholds = <<0, 0, 0, 0>>
    /\ direction = BiggerIsBetter
    /\ score = 0
    /\ checks \in CheckLists
    /\ weights \in WeightMaps
    /\ order = <<>>
    /\ card = NoOutcome
    /\ stats = NoStats
    /\ config = NoThresholds
    /\ clock = <<>>
    /\ scores = NoProjectScores
    /\ proc = "running"
    /\ inv = <<>>
    /\ sonar = NoSonar
    /\ github = NoGitHub

\* one call of computeScoreCardScore; the iteration order of the map is not
\* determined by the language
CallComputeScoreCardScore ==
    /\ pc = "idle"
    /\ \E ord \in Orders(DOMAIN weights) :
          /\ order' = ord
          /\ card' = computeScoreCardScore(checks, weights, ord)
    /\ pc' = "done"
    /\ UNCHANGED <<nb, thresholds, direction, score, checks, weights,
                   stats, config, clock, scores>>
    /\ UNCHANGED <<proc, inv, sonar, github>>

NextCard == CallComputeScoreCardScore

SpecCard == InitCard /\ [][NextCard]_vars

(* --------------------- specification: ComputeScores ------------------- *)

Counts == 0..MaxCount

\* the breakpoints a configuration gives to a metric
ThresholdList == <<<<0, 1, 2, 3>>, <<1, 50, 100, 200>>, <<0, 33, 50, 100>>>>

ThresholdChoices == {ThresholdList[i] : i \in 1..Len(ThresholdList)}

\* a configuration in which neighbouring metrics have different breakpoints
ConfigFrom(k) ==
    LET t(i) == ThresholdList[((i + k) % Len(ThresholdList)) + 1]
    IN MakeThresholds(t(1), t(2), t(3), t(4), t(5), t(6), t(7), t(8), t(9))

\* divisors: 0..MaxCount and one larger value, for quotients that truncate
Divisors == Counts \cup {MaxCount + 2}

InitCompute ==
    /\ pc = "idle"
    /\ nb = 0
    /\ thresholds = <<0, 0, 0, 0>>
    /\ direction = BiggerIsBetter
    /\ score = 0
    /\ checks \in {<<>>, <<[Name |-> "Binary-Artifacts", Score |-> MaxScore]>>}
    /\ weights \in {ws \in WeightMaps : DOMAIN ws \subseteq {"Binary-Artifacts"} /\ \A n \in DOMAIN ws : ws[n] = 1}
    /\ order = <<>>
    /\ card = NoOutcome
    /\ \E last, stars, contributors, cyclomatic \in {0, MaxCount},
          loc, overload, cognitive \in Counts,
          functions, smells \in Divisors,
          density \in {0, 15} :
          stats = MakeStats(0, last, stars, contributors, loc, functions, smells,
                            overload, cyclomatic, cognitive, density)
    /\ \E k \in 1..Len(ThresholdList) : config = ConfigFrom(k)
    /\ clock = <<>>
    /\ scores = NoProjectScores
    /\ proc = "running"
    /\ inv = <<>>
    /\ sonar = NoSonar
    /\ github = NoGitHub

\* one call of ComputeScores: the clock is read twice, not going backwards,
\* after the last commit
CallComputeScores ==
    /\ pc = "idle"
    /\ \E now1 \in MaxCount..(MaxCount + 1), ord \in Orders(DOMAIN weights) :
          \E now2 \in now1..(MaxCount + 1) :
              /\ clock' = <<now1, now2>>
              /\ order' = ord
              /\ scores' = ComputeScores(stats, config, checks, weights, now1, now2, ord)
    /\ pc' = "done"
    /\ UNCHANGED <<nb, thresholds, direction, score, checks, weights, card, stats, config>>
    /\ UNCHANGED <<proc, inv, sonar, github>>

\* a later call of ComputeScores with the same stats, thresholds and weights:
\* the clock has not gone backwards since the call before
CallComputeScoresAgain ==
    /\ pc = "done"
    /\ \E now1 \in clock[2]..(MaxCount + 1), ord \in Orders(DOMAIN weights) :
          \E now2 \in now1..(MaxCount + 1) :
              /\ clock' = <<now1, now2>>
              /\ order' = ord
              /\ scores' = ComputeScores(stats, config, checks, weights, now1, now2, ord)
    /\ pc' = "done"
    /\ UNCHANGED <<nb, thresholds, direction, score, checks, weights, card, stats, config>>
    /\ UNCHANGED <<proc, inv, sonar, github>>

Next == CallComputeScores \/ CallComputeScoresAgain

Spec == InitCompute /\ [][Next]_vars

(* ------- specification: score-card aggregator, scores up to 10 -------- *)

\* the scores of the checks of a scorecard run: not applicable, the lowest
\* score and the two highest ones
FullScores == {NotApplicable, 0, 9, 10}

FullCheckLists ==
    UNION {[1..n -> [Name : Names, Score : FullScores]] : n \in 0..MaxChecks}

InitCardFull ==
    /\ pc = "idle"
    /\ nb = 0
    /\ thresholds = <<0, 0, 0, 0>>
    /\ direction = BiggerIsBetter
    /\ score = 0
    /\ checks \in FullCheckLists
    /\ weights \in WeightMaps
    /\ order = <<>>
    /\ card = NoOutcome
    /\ stats = NoStats
    /\ config = NoThresholds
    /\ clock = <<>>
    /\ scores = NoProjectScores
    /\ proc = "running"
    /\ inv = <<>>
    /\ sonar = NoSonar
    /\ github = NoGitHub

SpecCardFull == InitCardFull /\ [][NextCard]_vars

(* ------------- specification: interleaved scoring invocations ---------- *)

\* the number of invocations of computeScoreCardScore that run in the process
NumInvocations == 2

\* the check lists of the interleaved invocations: scores NotApplicable or MaxScore
InvocationChecks ==
    {cs \in CheckLists : \A j \in 1..Len(cs) : cs[j].Score \in {NotApplicable, MaxScore}}

\* the shared weights of the interleaved invocations: at most two names
InvocationWeights == {ws \in WeightMaps : Cardinality(DOMAIN ws) <= 2}

\* an invocation that has not started, with its own stats.ScoreCard.Checks
IdleInvocation(cs) ==
    [pc |-> "idle", checks |-> cs, ord |-> <<>>, k |-> 0,
     acc |-> [fatal |-> "", sum |-> 0, divisor |-> 0], out |-> NoOutcome]

InitConc ==
    /\ pc = "idle"
    /\ nb = 0
    /\ thresholds = <<0, 0, 0, 0>>
    /\ direction = BiggerIsBetter
    /\ score = 0
    /\ checks = <<>>
    /\ weights \in InvocationWeights
    /\ order = <<>>
    /\ card = NoOutcome
    /\ stats = NoStats
    /\ config = NoThresholds
    /\ clock = <<>>
    /\ scores = NoProjectScores
    /\ proc = "running"
    /\ inv \in [1..NumInvocations -> {IdleInvocation(cs) : cs \in InvocationChecks}]
    /\ sonar = NoSonar
    /\ github = NoGitHub

\* invocation i enters computeScoreCardScore: sum, divisor := 0, 0 and the
\* range over weights.ScoreCard starts, in an order the language does not fix
Begin(i) ==
    /\ proc = "running"
    /\ inv[i].pc = "idle"
    /\ \E ord \in Orders(DOMAIN weights) :
          inv' = [inv EXCEPT ![i].pc = "loop", ![i].ord = ord, ![i].k = 1]
    /\ UNCHANGED <<pc, nb, thresholds, direction, score, checks, weights, order, card,
                   stats, config, clock, scores, proc, sonar, github>>

\* invocation i runs one iteration of the range over weights.ScoreCard; a name
\* that is not found reaches log.Fatalf, which ends the process with os.Exit(1)
VisitName(i) ==
    /\ proc = "running"
    /\ inv[i].pc = "loop"
    /\ inv[i].k <= Len(inv[i].ord)
    /\ LET name == inv[i].ord[inv[i].k]
           acc == nameStep(inv[i].acc, inv[i].checks, name, weights[name])
       IN IF acc.fatal # ""
          THEN /\ inv' = [inv EXCEPT ![i].pc = "done", ![i].acc = acc,
                                     ![i].out = Fatal(acc.fatal)]
               /\ proc' = "exited"
          ELSE /\ inv' = [inv EXCEPT ![i].k = @ + 1, ![i].acc = acc]
               /\ proc' = proc
    /\ UNCHANGED <<pc, nb, thresholds, direction, score, checks, weights, order, card,
                   stats, config, clock, scores, sonar, github>>

\* invocation i reaches the return statement; the integer division by zero is
\* a run-time panic, which nothing recovers and which ends the process
Return(i) ==
    /\ proc = "running"
    /\ inv[i].pc = "loop"
    /\ inv[i].k > Len(inv[i].ord)
    /\ LET out == returnValue(inv[i].acc.sum, inv[i].acc.divisor)
       IN /\ inv' = [inv EXCEPT ![i].pc = "done", ![i].out = out]
          /\ proc' = IF out.kind = "DivideByZero" THEN "exited" ELSE proc
    /\ UNCHANGED <<pc, nb, thresholds, direction, score, checks, weights, order, card,
                   stats, config, clock, scores, sonar, github>>

NextConc == \E i \in 1..NumInvocations : Begin(i) \/ VisitName(i) \/ Return(i)

SpecConc == InitConc /\ [][NextConc]_vars

(* -------------------- specification: GetSonarStats -------------------- *)

\* the values of SKIP_SONAR_SCANNER: unset, true values, false values, invalid
EnvValues == {"", "true", "1", "false", "0", "yes"}

\* the answers of SonarQube to one call of getSonarStats
Responses == [measuresErr : BOOLEAN, loc : 0..MaxCount, issuesErr : BOOLEAN, nb : 0..MaxCount]

InitSonar ==
    /\ pc = "idle"
    /\ nb = 0
    /\ thresholds = <<0, 0, 0, 0>>
    /\ direction = BiggerIsBetter
    /\ score = 0
    /\ checks = <<>>
    /\ weights = <<>>
    /\ order = <<>>
    /\ card = NoOutcome
    /\ stats = NoStats
    /\ config = NoThresholds
    /\ clock = <<>>
    /\ scores = NoProjectScores
    /\ proc = "running"
    /\ inv = <<>>
    /\ sonar \in {[NoSonar EXCEPT !.env = e] : e \in EnvValues}
    /\ github = NoGitHub

\* the first statements of GetSonarStats: SKIP_SONAR_SCANNER is read and
\* parsed, an invalid value ends the process with log.Fatalf
ReadEnv ==
    /\ proc = "running"
    /\ sonar.pc = "idle"
    /\ IF sonar.env # "" /\ ParseBool(sonar.env).err
       THEN /\ sonar' = [sonar EXCEPT !.pc = "exited"]
            /\ proc' = "exited"
       ELSE /\ sonar' = [sonar EXCEPT
                   !.pc = IF runsScanner(skippedOf(sonar.env)) THEN "clone" ELSE "poll"]
            /\ proc' = proc
    /\ UNCHANGED <<pc, nb, thresholds, direction, score, checks, weights, order, card,
                   stats, config, clock, scores, inv, github>>

\* runSonarScannerCLI, first half: the temporary directory and git clone
Clone ==
    /\ proc = "running"
    /\ sonar.pc = "clone"
    /\ \E outcome \in {"mkdirFailed", "cloneFailed", "cloned"} :
          sonar' = IF outcome = "mkdirFailed"
                   THEN [sonar EXCEPT !.pc = "done", !.scanner = "failed",
                                      !.result = SonarError]
                   ELSE IF outcome = "cloneFailed"
                   THEN [sonar EXCEPT !.pc = "done", !.cloned = TRUE, !.scanner = "failed",
                                      !.result = SonarError]
                   ELSE [sonar EXCEPT !.pc = "container", !.cloned = TRUE]
    /\ UNCHANGED <<pc, nb, thresholds, direction, score, checks, weights, order, card,
                   stats, config, clock, scores, proc, inv, github>>

\* runSonarScannerCLI, second half: docker run sonarsource/sonar-scanner-cli
RunContainer ==
    /\ proc = "running"
    /\ sonar.pc = "container"
    /\ \E failed \in BOOLEAN :
          sonar' = IF failed
                   THEN [sonar EXCEPT !.pc = "done", !.container = TRUE,
                                      !.scanner = "failed", !.result = SonarError]
                   ELSE [sonar EXCEPT !.pc = "poll", !.container = TRUE,
                                      !.scanner = "completed"]
    /\ UNCHANGED <<pc, nb, thresholds, direction, score, checks, weights, order, card,
                   stats, config, clock, scores, proc, inv, github>>

\* one iteration of the polling loop: an error or ready stats are returned,
\* anything else is logged and polled again after the sleep
Poll ==
    /\ proc = "running"
    /\ sonar.pc = "poll"
    /\ loopTest(sonar.i)
    /\ \E resp \in Responses :
          LET st == getSonarStats(resp)
              called == [sonar EXCEPT !.calls = @ + 1, !.last = st,
                            !.scannerAtFirstCall =
                                IF sonar.calls = 0 THEN sonar.scanner ELSE @]
          IN sonar' = IF st.kind = "error" \/ ready(st)
                      THEN [called EXCEPT !.pc = "done", !.result = st]
                      ELSE [called EXCEPT !.i = @ + 1, !.notReady = @ + 1]
    /\ UNCHANGED <<pc, nb, thresholds, direction, score, checks, weights, order, card,
                   stats, config, clock, scores, proc, inv, github>>

\* return e.getSonarStats(owner, repo) after the loop
LastPoll ==
    /\ proc = "running"
    /\ sonar.pc = "poll"
    /\ ~loopTest(sonar.i)
    /\ \E resp \in Responses :
          LET st == getSonarStats(resp)
          IN sonar' = [sonar EXCEPT !.pc = "done", !.calls = @ + 1, !.last = st,
                          !.scannerAtFirstCall =
                              IF sonar.calls = 0 THEN sonar.scanner ELSE @,
                          !.result = st]
    /\ UNCHANGED <<pc, nb, thresholds, direction, score, checks, weights, order, card,
                   stats, config, clock, scores, proc, inv, github>>

NextSonar == ReadEnv \/ Clone \/ RunContainer \/ Poll \/ LastPoll

SpecSonar == InitSonar /\ [][NextSonar]_vars

(* -------------------- specification: GetGitHubStats ------------------- *)

\* the commits of the last six months on the default branch: at most MaxCommits
MaxCommits == 5

\* the commits a page of ListCommits holds
PageSize == 3

Emails == {"alice@example.org", "bob@example.org"}

AuthorNames == {"alice", "dependabot[bot]"}

Commit == [Email : Emails, Name : AuthorNames]

CommitLists == UNION {[1..n -> Commit] : n \in 0..MaxCommits}

\* the smaller of two numbers
Min(a, b) == IF a < b THEN a ELSE b

InitGitHub ==
    /\ pc = "idle"
    /\ nb = 0
    /\ thresholds = <<0, 0, 0, 0>>
    /\ direction = BiggerIsBetter
    /\ score = 0
    /\ checks = <<>>
    /\ weights = <<>>
    /\ order = <<>>
    /\ card = NoOutcome
    /\ stats = NoStats
    /\ config = NoThresholds
    /\ clock = <<>>
    /\ scores = NoProjectScores
    /\ proc = "running"
    /\ inv = <<>>
    /\ sonar = NoSonar
    /\ github \in {[NoGitHub EXCEPT !.commits = cs, !.pc = "pages"] : cs \in CommitLists}

\* one iteration of the paging loop: ListCommits fails, or its page of commits
\* is added to the map and the loop ends when there is no next page
FetchPage ==
    /\ github.pc = "pages"
    /\ \E failed \in BOOLEAN :
          LET upTo == Min(github.fetched + PageSize, Len(github.commits))
              page == SubSeq(github.commits, github.fetched + 1, upTo)
              unique == addCommits(github.unique, page, 1)
          IN github' = IF failed
                       THEN [github EXCEPT !.pc = "done", !.result = GitHubError]
                       ELSE [github EXCEPT !.fetched = upTo, !.unique = unique,
                                !.pc = IF upTo = Len(github.commits) THEN "count"
                                       ELSE "pages"]
    /\ UNCHANGED <<pc, nb, thresholds, direction, score, checks, weights, order, card,
                   stats, config, clock, scores, proc, inv, sonar>>

\* the loop over uniqueContributors and the return of the stats
CountActive ==
    /\ github.pc = "count"
    /\ github' = [github EXCEPT !.pc = "done",
                                !.result = GitHubStats(countActive(github.unique))]
    /\ UNCHANGED <<pc, nb, thresholds, direction, score, checks, weights, order, card,
                   stats, config, clock, scores, proc, inv, sonar>>

NextGitHub == FetchPage \/ CountActive

SpecGitHub == InitGitHub /\ [][NextGitHub]_vars

(* ------------------------- claims: band mapper ------------------------ *)

StrictlyIncreasing(t) == t[1] < t[2] /\ t[2] < t[3] /\ t[3] < t[4]

\* band = number of i with value > b[i]
Band(n, t) == Cardinality({i \in 1..4 : n > t[i]})

\* C1: for strictly increasing breakpoints computeScore returns band+1
\* (BiggerIsBetter) or 5-band (SmallerIsBetter), band being the number of
\* breakpoints the value strictly exceeds; 6 against [1,5,10,20] gives 3.
C1_BandFormula ==
    /\ (pc = "done" /\ StrictlyIncreasing(thresholds)) =>
          score = IF direction = BiggerIsBetter
                  THEN Band(nb, thresholds) + 1
                  ELSE 5 - Band(nb, thresholds)
    /\ pc = "done" => computeScore(6, <<1, 5, 10, 20>>, BiggerIsBetter) = 3

C1_Witness ==
    /\ pc = "done"
    /\ StrictlyIncreasing(thresholds)
    /\ nb = thresholds[2]
    /\ score = 2

\* C2: computeScore returns a value in 1..5 for every value, direction and
\* 4-tuple of breakpoints, increasing or not.
C2_Total == pc = "done" => score \in 1..5

C2_Witness ==
    /\ pc = "done"
    /\ ~StrictlyIncreasing(thresholds)
    /\ thresholds[1] > thresholds[4]
    /\ nb > thresholds[4]
    /\ nb <= thresholds[1]

\* C3: for strictly increasing breakpoints computeScore is monotone in the
\* value: non-decreasing for BiggerIsBetter, non-increasing for SmallerIsBetter.
C3_Monotone ==
    (pc = "done" /\ StrictlyIncreasing(thresholds)) =>
        \A v \in Values :
            nb <= v =>
                IF direction = BiggerIsBetter
                THEN score <= computeScore(v, thresholds, direction)
                ELSE score >= computeScore(v, thresholds, direction)

C3_Witness ==
    /\ pc = "done"
    /\ StrictlyIncreasing(thresholds)
    /\ direction = SmallerIsBetter
    /\ \E v \in Values : nb < v /\ score > computeScore(v, thresholds, direction)

\* C4 as stated: a value equal to a breakpoint scores as the value just below
\* it, computeScore(b[i]) = computeScore(b[i] - 1), for every i and every
\* strictly increasing tuple.  Fails when b[i] - 1 is itself the breakpoint
\* b[i-1], which lies in the band below.
C4_BoundaryOriginal ==
    (pc = "done" /\ StrictlyIncreasing(thresholds)) =>
        \A i \in 1..4 :
            nb = thresholds[i] =>
                score = computeScore(nb - 1, thresholds, direction)

\* C4 (amended): computeScore(b[i]) = computeScore(b[i] - 1) for every i such
\* that i = 0 or b[i] - b[i-1] >= 2, i.e. whenever b[i] - 1 is not itself
\* the breakpoint below.
C4_Boundary ==
    (pc = "done" /\ StrictlyIncreasing(thresholds)) =>
        \A i \in 1..4 :
            (nb = thresholds[i] /\ (i = 1 \/ thresholds[i] - thresholds[i - 1] >= 2)) =>
                score = computeScore(nb - 1, thresholds, direction)

C4_Witness ==
    /\ pc = "done"
    /\ StrictlyIncreasing(thresholds)
    /\ nb = thresholds[4]
    /\ thresholds[4] - thresholds[3] >= 2
    /\ score = computeScore(nb - 1, thresholds, direction)
    /\ score # computeScore(nb + 1, thresholds, direction)

(* --------------------- claims: scorecard aggregator ------------------- *)

NamesOf(cs) == {cs[j].Name : j \in 1..Len(cs)}

\* no two entries of the list carry the same name
UniqueNames(cs) == \A i, j \in 1..Len(cs) : i # j => cs[i].Name # cs[j].Name

\* every name of the weights has a check
AllFound(cs, ws) == DOMAIN ws \subseteq NamesOf(cs)

\* the scores of the entries named n
ScoresOf(cs, n) == {cs[j].Score : j \in {i \in 1..Len(cs) : cs[i].Name = n}}

\* the required names having an entry whose score is not -1
Applicable(cs, ws) == {n \in DOMAIN ws : ScoresOf(cs, n) \ {NotApplicable} # {}}

\* the score of the check named n, for a list with one entry per name
ScoreOf(cs, n) == cs[CHOOSE j \in 1..Len(cs) : cs[j].Name = n].Score

\* sum of score * weight over the names of S
RECURSIVE WeightedSum(_, _, _)
WeightedSum(cs, ws, S) ==
    IF S = {} THEN 0
    ELSE LET n == CHOOSE m \in S : TRUE
         IN ScoreOf(cs, n) * ws[n] + WeightedSum(cs, ws, S \ {n})

\* sum of the weights of the names of S
RECURSIVE TotalWeight(_, _)
TotalWeight(ws, S) ==
    IF S = {} THEN 0
    ELSE LET n == CHOOSE m \in S : TRUE
         IN ws[n] + TotalWeight(ws, S \ {n})

\* the list without its entries named n
RemoveName(cs, n) == SelectSeq(cs, LAMBDA c : c.Name # n)

\* the map without the key n
WithoutKey(ws, n) == [m \in DOMAIN ws \ {n} |-> ws[m]]

\* C5: when every required name has its check (one entry per name) and one of
\* them is applicable, the call returns ((weightedSum + 1) / totalWeight) / 2,
\* both sums taken over the required names whose score is not -1; checks
\* {Binary-Artifacts: 5, CI-Tests: -1} with weights 1 and 1 give 3.
C5_Formula ==
    /\ (/\ pc = "done"
        /\ UniqueNames(checks)
        /\ AllFound(checks, weights)
        /\ Applicable(checks, weights) # {}) =>
          LET A == Applicable(checks, weights)
          IN card = Returned(((WeightedSum(checks, weights, A) + 1)
                                 \div TotalWeight(weights, A)) \div 2)
    /\ pc = "done" =>
          \A ord \in {<<"Binary-Artifacts", "CI-Tests">>, <<"CI-Tests", "Binary-Artifacts">>} :
              computeScoreCardScore(
                  <<[Name |-> "Binary-Artifacts", Score |-> 5],
                    [Name |-> "CI-Tests", Score |-> NotApplicable]>>,
                  [n \in {"Binary-Artifacts", "CI-Tests"} |-> 1], ord) = Returned(3)

C5_Witness ==
    /\ pc = "done"
    /\ UniqueNames(checks)
    /\ Len(checks) = 2
    /\ DOMAIN weights = NamesOf(checks)
    /\ Cardinality(Applicable(checks, weights)) = 2
    /\ weights[checks[1].Name] # weights[checks[2].Name]
    /\ card = Returned(1)

\* C6: a required name all of whose checks score -1 adds nothing: when all
\* required names are found and an applicable one remains, the result is the
\* result for the inputs without that name in checks and in weights.
C6_Excluded ==
    (pc = "done" /\ AllFound(checks, weights)) =>
        \A n \in DOMAIN weights :
            (/\ ScoresOf(checks, n) = {NotApplicable}
             /\ Applicable(checks, weights) # {}) =>
                \A ord \in Orders(DOMAIN weights \ {n}) :
                    card = computeScoreCardScore(RemoveName(checks, n),
                                                 WithoutKey(weights, n), ord)

C6_Witness ==
    /\ pc = "done"
    /\ AllFound(checks, weights)
    /\ Cardinality(DOMAIN weights) = 2
    /\ \E n \in DOMAIN weights : ScoresOf(checks, n) = {NotApplicable}
    /\ card = Returned(1)

\* the required names without a check
Missing(cs, ws) == DOMAIN ws \ NamesOf(cs)

\* C7: if some required name has no check the call ends in the fatal
\* MissingCheck naming a required name that has no check, and returns no
\* score, whatever the other checks and the order of the names.
C7_MissingCheck ==
    (pc = "done" /\ Missing(checks, weights) # {}) =>
        /\ card.kind = "MissingCheck"
        /\ card.name \in Missing(checks, weights)
        /\ card = Fatal(card.name)

\* a name was accumulated before the missing one was visited
C7_Witness ==
    /\ pc = "done"
    /\ Len(order) = 2
    /\ order[1] \in Applicable(checks, weights)
    /\ Missing(checks, weights) = {order[2]}
    /\ card = Fatal(order[2])

\* C8: when every required name is found and none is applicable (the weights
\* are empty or every required check scores -1) the call ends in the division
\* by zero and returns no score.
C8_DivideByZero ==
    (/\ pc = "done"
     /\ AllFound(checks, weights)
     /\ Applicable(checks, weights) = {}) =>
        card = DivideByZero

C8_Witness ==
    /\ pc = "done"
    /\ Cardinality(DOMAIN weights) = 2
    /\ AllFound(checks, weights)
    /\ Applicable(checks, weights) = {}
    /\ card.kind = "DivideByZero"

\* the list with entry j removed
RemoveAt(cs, j) == [i \in 1..(Len(cs) - 1) |-> IF i < j THEN cs[i] ELSE cs[i + 1]]

\* C10: checks whose name is not in the weights are ignored: adding one,
\* removing one or changing the score of one leaves the outcome as it is.
C10_Ignored ==
    pc = "done" =>
        /\ \A c \in Check :
              c.Name \notin DOMAIN weights =>
                  /\ computeScoreCardScore(Append(checks, c), weights, order) = card
                  /\ computeScoreCardScore(<<c>> \o checks, weights, order) = card
        /\ \A j \in 1..Len(checks) :
              checks[j].Name \notin DOMAIN weights =>
                  /\ computeScoreCardScore(RemoveAt(checks, j), weights, order) = card
                  /\ \A sc \in NotApplicable..MaxScore :
                        computeScoreCardScore([checks EXCEPT ![j].Score = sc],
                                              weights, order) = card

C10_Witness ==
    /\ pc = "done"
    /\ Len(checks) = 2
    /\ checks[1].Name \notin DOMAIN weights
    /\ checks[1].Score = MaxScore
    /\ checks[2].Name \in DOMAIN weights
    /\ checks[2].Score = 0
    /\ card = Returned(0)

(* ------------------------- claims: ComputeScores ---------------------- *)

\* C9: with functionCount = 0 or codeSmellCount = 0 ComputeScores fails with an
\* explicit InvalidInput error and returns no ProjectScores, not with a
\* division fault of the platform.
C9_InvalidInput ==
    (pc = "done" /\ (stats.Sonar.Functions = 0 \/ stats.Sonar.CodeSmells = 0)) =>
        scores.kind = "InvalidInput"

\* what the code does there: the run-time panic of the integer division
C9_Panics ==
    (pc = "done" /\ (stats.Sonar.Functions = 0 \/ stats.Sonar.CodeSmells = 0)) =>
        scores.kind = "DivideByZero"

\* the score of a value against strictly increasing breakpoints
BandScore(n, t, dir) == IF dir = BiggerIsBetter THEN Band(n, t) + 1 ELSE 5 - Band(n, t)

\* C11: the cyclomaticComplexity score is the band score, SmallerIsBetter, of
\* the truncated 100 * brainOverloadFunctionCount / functionCount, not of the
\* cyclomatic complexity sum divided by functionCount.
C11_Cyclomatic ==
    (pc = "done" /\ scores.kind = "scores") =>
        scores.value.Tech.CyclomaticComplexity =
            BandScore((100 * stats.Sonar.BrainOverload) \div stats.Sonar.Functions,
                      config.Tech.CyclomaticComplexity, SmallerIsBetter)

\* 100 * 1 / 3 truncates to 33, which does not exceed the breakpoint 33, and
\* the mean cyclomatic complexity 0 would score 5
C11_Witness ==
    /\ pc = "done"
    /\ scores.kind = "scores"
    /\ stats.Sonar.BrainOverload = 1
    /\ stats.Sonar.Functions = 3
    /\ stats.Sonar.CyclomaticComplexity = 0
    /\ config.Tech.CyclomaticComplexity = <<0, 33, 50, 100>>
    /\ scores.value.Tech.CyclomaticComplexity = 4

\* C12: every other metric is the band score of its own derived value against
\* its own breakpoints: maturity, popularity, contributors and codeSmells
\* with BiggerIsBetter, activity, size, cognitiveComplexity and duplication
\* with SmallerIsBetter; 10000 lines with 20 code smells against
\* [50,200,500,1000] score 3.
C12_Metrics ==
    /\ (pc = "done" /\ scores.kind = "scores") =>
          LET v == scores.value
              gh == stats.GitHub
              so == stats.Sonar
          IN /\ v.Community.Maturity =
                    BandScore(clock[1] - gh.FirstCommitDate, config.Community.Maturity,
                              BiggerIsBetter)
             /\ v.Community.Activity =
                    BandScore(clock[2] - gh.LastCommitDate, config.Community.Activity,
                              SmallerIsBetter)
             /\ v.Community.Popularity =
                    BandScore(gh.Stars, config.Community.Popularity, BiggerIsBetter)
             /\ v.Community.Contributors =
                    BandScore(gh.ActiveContributors, config.Community.Contributors,
                              BiggerIsBetter)
             /\ v.Tech.Size = BandScore(so.LinesOfCode, config.Tech.Size, SmallerIsBetter)
             /\ v.Tech.CognitiveComplexity =
                    BandScore(so.CognitiveComplexity \div so.Functions,
                              config.Tech.CognitiveComplexity, SmallerIsBetter)
             /\ v.Tech.Duplication =
                    BandScore(so.DuplicationDensity \div 10, config.Tech.Duplication,
                              SmallerIsBetter)
             /\ v.Tech.CodeSmells =
                    BandScore(so.LinesOfCode \div so.CodeSmells, config.Tech.CodeSmells,
                              BiggerIsBetter)
    /\ pc = "done" =>
          LET st == MakeStats(0, 0, 0, 0, 10000, 1, 20, 0, 0, 0, 0)
              t == <<50, 200, 500, 1000>>
              th == MakeThresholds(t, t, t, t, t, t, t, t, t)
          IN computeCodeSmellsScore(st, th) = Returned(3)

\* the quotients of cognitiveComplexity and codeSmells truncate to 0 and the
\* density 1.5 to 1
C12_Witness ==
    /\ pc = "done"
    /\ scores.kind = "scores"
    /\ stats.Sonar.CognitiveComplexity = 1
    /\ stats.Sonar.LinesOfCode = 1
    /\ stats.Sonar.Functions = 3
    /\ stats.Sonar.CodeSmells = 3
    /\ stats.Sonar.DuplicationDensity = 15
    /\ config.Tech.CodeSmells = <<0, 1, 2, 3>>
    /\ scores.value.Tech.CodeSmells = 1
    /\ scores.value.Tech.CognitiveComplexity = 5

\* C13: two calls of ComputeScores with the same stats, thresholds and
\* weights return the same ProjectScores, whenever they are made.
C13_Deterministic ==
    [][(pc = "done" /\ pc' = "done") => scores' = scores]_vars

\* what the code keeps from one call to the next: whether it returns, and
\* every score but maturity and activity, which read the clock
C13_ClockOnly ==
    [][(pc = "done" /\ pc' = "done") =>
          /\ scores'.kind = scores.kind
          /\ scores'.value.Tech = scores.value.Tech
          /\ scores'.value.Security = scores.value.Security
          /\ scores'.value.Community.Popularity = scores.value.Community.Popularity
          /\ scores'.value.Community.Contributors = scores.value.Community.Contributors]_vars

\* ------------------------------------------------------------------------
\* C14 (as stated): interleaved invocations over shared read-only weights do
\* not affect each other: a missing check in one invocation is an error value
\* of that invocation, the process keeps running, and every other invocation
\* that has not finished can still take its next step and return its score.
C14_Isolated ==
    \A i \in DOMAIN inv :
        inv[i].out.kind = "MissingCheck" =>
            /\ proc = "running"
            /\ \A j \in DOMAIN inv : inv[j].pc = "loop" => ENABLED (VisitName(j) \/ Return(j))

\* what holds of the code: an invocation that finishes has the outcome it
\* would have alone, in whatever way the invocations are interleaved
C14_SameOutcome ==
    \A i \in DOMAIN inv :
        inv[i].pc = "done" =>
            inv[i].out = computeScoreCardScore(inv[i].checks, weights, inv[i].ord)

\* ------------------------------------------------------------------------
\* C15: with SKIP_SONAR_SCANNER set to a true value GetSonarStats never runs
\* the scanner (no clone, no container) and still requests the measures; with
\* the variable unset or false the scanner has completed before the first
\* measures request, and a scanner failure returns an error with no measures
\* request made.
C15_Scanner ==
    /\ (sonar.env \in TrueValues) =>
          /\ ~sonar.cloned /\ ~sonar.container /\ sonar.scanner = "notrun"
          /\ sonar.pc = "done" => sonar.calls >= 1
    /\ (sonar.env = "" \/ sonar.env \in FalseValues) =>
          /\ sonar.calls > 0 => sonar.scannerAtFirstCall = "completed"
          /\ sonar.scanner = "failed" =>
                sonar.calls = 0 /\ sonar.pc = "done" /\ sonar.result.kind = "error"
          /\ sonar.pc = "done" => sonar.scanner # "notrun"

\* the measures are returned with the scanner skipped
C15_Witness ==
    /\ sonar.env = "true"
    /\ sonar.pc = "done"
    /\ sonar.result = SonarStats(1, 1)

\* ------------------------------------------------------------------------
\* C20: the polling ends after at most MaxPolls + 1 calls of getSonarStats;
\* what is returned is the result of the last call, every call before it was
\* not ready and without error, a return from inside the loop is an error or
\* ready stats, and the call after MaxPolls polls returns whatever it gets.
C20_Polling ==
    /\ sonar.calls <= MaxPolls + 1
    /\ sonar.i <= MaxPolls
    /\ sonar.pc = "poll" => sonar.calls = sonar.i /\ sonar.notReady = sonar.i
    /\ sonar.pc = "poll" => ENABLED (Poll \/ LastPoll)
    /\ (sonar.pc = "done" /\ sonar.calls > 0) =>
          /\ sonar.result = sonar.last
          /\ sonar.notReady = sonar.calls - 1
          /\ sonar.calls <= MaxPolls => (sonar.result.kind = "error" \/ ready(sonar.result))

\* the call after MaxPolls polls returns stats with zero counts
C20_Witness ==
    /\ sonar.pc = "done"
    /\ sonar.calls = MaxPolls + 1
    /\ sonar.notReady = MaxPolls
    /\ sonar.result = SonarStats(0, 0)

\* the number of commits of cs with author email e whose author name does
\* not end in "[bot]"
HumanCommits(cs, e) ==
    Cardinality({j \in 1..Len(cs) : cs[j].Email = e /\ ~HasSuffix(cs[j].Name, "[bot]")})

\* ------------------------------------------------------------------------
\* C16 (as stated): ActiveContributors is the number of distinct author emails
\* with at least 5 commits among the fetched commits, commits whose author
\* name ends in "[bot]" not being counted.
C16_AtLeastFive ==
    (github.pc = "done" /\ github.result.kind = "stats") =>
        github.result.active =
            Cardinality({e \in Emails : HumanCommits(github.commits, e) >= 5})

\* what holds of the code: the emails with more than ActiveThreshold commits
C16_MoreThanThree ==
    (github.pc = "done" /\ github.result.kind = "stats") =>
        github.result.active =
            Cardinality({e \in Emails : HumanCommits(github.commits, e) > ActiveThreshold})

\* the state in which computeScoreCardScore has returned a value for inputs
\* of the contract: names at most once, all required checks found, at least
\* one of them applicable
ReturnedValue ==
    /\ pc = "done"
    /\ UniqueNames(checks)
    /\ AllFound(checks, weights)
    /\ Applicable(checks, weights) # {}

\* ------------------------------------------------------------------------
\* C17 (as stated): a returned value lies in 0..5, and it is 5 only when every
\* applicable required check scores 10, or the total weight is 1 and the
\* score is at least 9.
C17_FiveOriginal ==
    ReturnedValue =>
        LET A == Applicable(checks, weights)
        IN /\ card.kind = "score" /\ card.value \in 0..5
           /\ card.value = 5 =>
                 \/ \A n \in A : ScoreOf(checks, n) = 10
                 \/ TotalWeight(weights, A) = 1 /\ \A n \in A : ScoreOf(checks, n) >= 9

\* C17 (amended): a returned value lies in 0..5, and it is 5 exactly when
\* every applicable required check scores 10, except at most one check of
\* weight 1 that scores 9, whatever the total weight.
C17_Five ==
    ReturnedValue =>
        LET A == Applicable(checks, weights)
        IN /\ card.kind = "score" /\ card.value \in 0..5
           /\ card.value = 5 <=>
                 \/ \A n \in A : ScoreOf(checks, n) = 10
                 \/ \E n \in A :
                       /\ weights[n] = 1 /\ ScoreOf(checks, n) = 9
                       /\ \A m \in A \ {n} : ScoreOf(checks, m) = 10

\* a 5 with a check that scores 9 and a total weight of 3
C17_Witness ==
    /\ ReturnedValue
    /\ card = Returned(5)
    /\ TotalWeight(weights, Applicable(checks, weights)) = 3
    /\ \E n \in Applicable(checks, weights) : ScoreOf(checks, n) = 9

\* the value 0, below the range 1..5 of the other scores, is returned
C17_Zero == ReturnedValue /\ card = Returned(0)

\* the reorderings of a list
Reorderings(cs) ==
    {[i \in 1..Len(cs) |-> cs[f[i]]] :
        f \in {g \in [1..Len(cs) -> 1..Len(cs)] : \A i, j \in 1..Len(cs) : i # j => g[i] # g[j]}}

\* ------------------------------------------------------------------------
\* C18: the outcome of computeScoreCardScore depends neither on the order in
\* which the names of the weights map are visited nor on the order of the
\* checks list: every order returns the same score, or panics alike, and when
\* a required name is missing every order ends in the fatal MissingCheck.
C18_OrderIndependent ==
    pc = "done" =>
        \A ord \in Orders(DOMAIN weights) : \A cs \in Reorderings(checks) :
            LET r == computeScoreCardScore(cs, weights, ord)
            IN /\ r.kind = card.kind
               /\ r.value = card.value
               /\ Missing(checks, weights) # {} => r.kind = "MissingCheck"

\* two names with the scores 0 and 10, scored 2 in any order
C18_Witness ==
    /\ pc = "done"
    /\ Len(checks) = 2
    /\ Cardinality(DOMAIN weights) = 2
    /\ DOMAIN weights = NamesOf(checks)
    /\ checks[1].Score = 0
    /\ checks[2].Score = 10
    /\ card = Returned(2)

\* what one required name adds to sum and divisor
Contribution(cs, name, weight) ==
    nameStep([fatal |-> "", sum |-> 0, divisor |-> 0], cs, name, weight)

\* ------------------------------------------------------------------------
\* C19 (as stated): each required name contributes at most once: whatever the
\* number of entries of checks with that name, the divisor grows by at most
\* the weight of the name and the sum by at most one term score * weight.
C19_AtMostOnce ==
    pc = "done" =>
        \A n \in DOMAIN weights :
            LET c == Contribution(checks, n, weights[n])
            IN /\ c.divisor <= weights[n]
               /\ c.sum \in {0} \cup {s * weights[n] : s \in ScoresOf(checks, n)}

\* what holds of the code: every entry with the name contributes
C19_EveryEntry ==
    pc = "done" =>
        \A n \in DOMAIN weights :
            LET c == Contribution(checks, n, weights[n])
                J == {j \in 1..Len(checks) :
                         checks[j].Name = n /\ checks[j].Score # NotApplicable}
            IN c.divisor = Cardinality(J) * weights[n]

====
